---- MODULE Spec2Model ----
(***************************************************************************)
(* Model of telegram_reminder_agent.py: the message handler               *)
(* handle_message, the job callback send_reminder and the job queue they  *)
(* share, run by the single event loop that main() starts.                *)
(*                                                                         *)
(* Time is a discrete clock (one unit stands for one hour).  A timestamp   *)
(* string is the record [form, t, off]: form "bad" is text that is no ISO  *)
(* 8601 timestamp, "naive" is a timestamp without UTC offset whose wall    *)
(* clock reads t, "offset" one whose wall clock reads t at UTC offset off. *)
(* A task text is a sequence of characters.                                *)
(***************************************************************************)
EXTENDS Integers, Sequences, FiniteSets, TLC

\* ---------------------------------------------------------------- bounds
MaxMsgs == 2        \* updates handled in one run
MaxTime == 2        \* last instant of the clock

\* ---------------------------------------------------------------- inputs
Chats == {101, 102}
Tasks == {<<>>, <<" ">>, <<"a">>}
FireTimes == {1}
BadTime == [form |-> "bad", t |-> 0, off |-> 0]
TimeStrs ==
    {BadTime}
      \cup {[form |-> "naive", t |-> x, off |-> 0] : x \in FireTimes}
      \cup {[form |-> "offset", t |-> x + 1, off |-> 1] : x \in FireTimes}
UpstreamErrors == {"APIError", "OutputParserException"}
UpdateIds == 1..MaxMsgs

VARIABLES
    now,        \* datetime.now(timezone.utc)
    received,   \* number of updates handed to handle_message so far
    h,          \* the running handle_message call and its local variables
    calls,      \* per update: chain.invoke calls made by its handler
    outcome,    \* per update: how its handler ended, "none" before that
    malformed,  \* updates whose extracted time was no ISO 8601 timestamp
    jobs,       \* context.job_queue: the pending jobs
    armed,      \* every job run_once was ever called for
    missed,     \* ids of jobs the job queue dropped without running
    sent,       \* per job: its context.bot.send_message calls, in order
    replies     \* update.message.reply_text calls that went out

vars == <<now, received, h, calls, outcome, malformed, jobs, armed, missed,
          sent, replies>>

Idle == [pc |-> "idle", id |-> 0, chat_id |-> 0, hung |-> FALSE,
         task |-> <<>>, time_str |-> BadTime, remind_time |-> 0]

\* ------------------------------------------------------------ pure parts

ValueError == [err |-> "ValueError"]

\* Mutant: text that is no timestamp is read as the instant 0.
fromisoformat_Lenient(time_str) ==
    [err |-> "", t |-> time_str.t,
     tzinfo |-> IF time_str.form = "offset" THEN "offset" ELSE "None",
     utcoffset |-> time_str.off]

\* datetime.fromisoformat(time_str): the parsed datetime, or ValueError.
fromisoformat(time_str) ==
    IF time_str.form = "bad" THEN ValueError
    ELSE [err |-> "", t |-> time_str.t,
          tzinfo |-> IF time_str.form = "naive" THEN "None" ELSE "offset",
          utcoffset |-> time_str.off]

\* Mutant: a timestamp without offset is taken as local time (UTC+1).
AssumeUtc_Local(dt) ==
    IF dt.tzinfo = "None" THEN [dt EXCEPT !.tzinfo = "local", !.utcoffset = 1]
    ELSE dt

\* if remind_time.tzinfo is None: remind_time.replace(tzinfo=timezone.utc)
AssumeUtc(dt) ==
    IF dt.tzinfo = "None" THEN [dt EXCEPT !.tzinfo = "utc", !.utcoffset = 0]
    ELSE dt

\* The instant an aware datetime denotes, on the UTC clock.
Instant(dt) == dt.t - dt.utcoffset

\* Mutant: the delay is taken from the epoch instead of from now.
Delay_FromEpoch(remind_time) == Instant(remind_time)

\* delay = remind_time - datetime.now(timezone.utc)
Delay(remind_time) == Instant(remind_time) - now

\* Mutant: every job is registered under one key, so that a later job
\* takes the place of an equal earlier one.
run_once_SameKey(id, when, chat_id, data) ==
    [id |-> 1, chat_id |-> chat_id, data |-> data, when |-> when,
     due |-> now + when]

\* Mutant: the job is registered for a fixed chat instead of the sender's.
run_once_WrongChat(id, when, chat_id, data) ==
    [id |-> id, chat_id |-> 101, data |-> data, when |-> when,
     due |-> now + when]

\* The job run_once(send_reminder, when=delay, chat_id=chat_id, data=task)
\* adds: it is due `when` after the call.
run_once(id, when, chat_id, data) ==
    [id |-> id, chat_id |-> chat_id, data |-> data, when |-> when,
     due |-> now + when]

\* The event loop runs nothing else while handle_message sits in the
\* synchronous chain.invoke call.
LoopFree == h.pc # "invoke"

Init ==
    /\ now = 0
    /\ received = 0
    /\ h = Idle
    /\ calls = [i \in UpdateIds |-> 0]
    /\ outcome = [i \in UpdateIds |-> "none"]
    /\ malformed = {}
    /\ jobs = {}
    /\ armed = {}
    /\ missed = {}
    /\ sent = [i \in UpdateIds |-> <<>>]
    /\ replies = {}

\* The Application hands the next text update to handle_message, one
\* update at a time; the handler enters chain.invoke.
StartHandler(chat) ==
    /\ h.pc = "idle"
    /\ received < MaxMsgs
    /\ received' = received + 1
    /\ h' = [Idle EXCEPT !.pc = "invoke", !.id = received + 1,
                          !.chat_id = chat]
    /\ calls' = [calls EXCEPT ![received + 1] = @ + 1]
    /\ UNCHANGED <<now, outcome, malformed, jobs, armed, missed, sent,
                   replies>>

\* Mutant: an exception in the handler takes the process down, and the
\* in-memory job queue with it.
OnHandlerError_Crash(err) ==
    /\ h' = [Idle EXCEPT !.pc = "crashed"]
    /\ outcome' = [outcome EXCEPT ![h.id] = err]
    /\ jobs' = {}
    /\ UNCHANGED armed

\* An exception leaves handle_message: the Application that main() built
\* catches it, the handler is over and nothing else is touched.
OnHandlerError(err) ==
    /\ h' = Idle
    /\ outcome' = [outcome EXCEPT ![h.id] = err]
    /\ UNCHANGED <<jobs, armed>>

\* Mutant: the handler calls chain.invoke a second time before giving up.
InvokeRaises_Retry(err) ==
    /\ h.pc = "invoke"
    /\ ~h.hung
    /\ IF calls[h.id] < 2
       THEN /\ calls' = [calls EXCEPT ![h.id] = @ + 1]
            /\ UNCHANGED <<h, outcome, jobs, armed>>
       ELSE /\ OnHandlerError(err)
            /\ UNCHANGED calls
    /\ UNCHANGED <<now, received, malformed, missed, sent, replies>>

\* chain.invoke raises: the model is unreachable (APIError) or its answer
\* does not have the two fields (OutputParserException).
InvokeRaises(err) ==
    /\ h.pc = "invoke"
    /\ ~h.hung
    /\ OnHandlerError(err)
    /\ UNCHANGED <<now, received, calls, malformed, missed, sent, replies>>

\* chain.invoke is called without a timeout: the model may never answer.
InvokeHangs ==
    /\ h.pc = "invoke"
    /\ ~h.hung
    /\ h' = [h EXCEPT !.hung = TRUE]
    /\ UNCHANGED <<now, received, calls, outcome, malformed, jobs, armed,
                   missed, sent, replies>>

\* Mutant: the handler acknowledges without having called run_once.
InvokeReturns_NoJob(task, time_str) ==
    /\ h.pc = "invoke"
    /\ ~h.hung
    /\ malformed' = IF time_str.form = "bad" THEN malformed \cup {h.id}
                    ELSE malformed
    /\ h' = [h EXCEPT !.pc = "reply", !.task = task, !.time_str = time_str,
                      !.remind_time = time_str.t - time_str.off]
    /\ UNCHANGED <<now, received, calls, outcome, jobs, armed, missed, sent,
                   replies>>

\* chain.invoke returns {task, time}; the handler runs on to reply_text
\* without giving up the event loop.
InvokeReturns(task, time_str) ==
    /\ h.pc = "invoke"
    /\ ~h.hung
    /\ malformed' = IF time_str.form = "bad" THEN malformed \cup {h.id}
                    ELSE malformed
    /\ LET dt == fromisoformat(time_str) IN
       IF dt.err # "" THEN OnHandlerError(dt.err)
       ELSE LET remind_time == AssumeUtc(dt)
                job == run_once(h.id, Delay(remind_time), h.chat_id, task)
            IN  /\ jobs' = jobs \cup {job}
                /\ armed' = armed \cup {job}
                /\ h' = [h EXCEPT !.pc = "reply", !.task = task,
                                  !.time_str = time_str,
                                  !.remind_time = Instant(remind_time)]
                /\ UNCHANGED outcome
    /\ UNCHANGED <<now, received, calls, missed, sent, replies>>

\* f"Got it! I'll remind you to {task} at {remind_time.isoformat()}"
AckText(task, remind_time) == [task |-> task, time |-> remind_time]

\* Mutant: the handler waits for its timer to fire before it finishes.
ReplyDone_AfterTimer ==
    /\ h.pc = "reply"
    /\ h.id \notin {j.id : j \in jobs}
    /\ replies' = replies \cup {[id |-> h.id, chat_id |-> h.chat_id,
                                  text |-> AckText(h.task, h.remind_time)]}
    /\ h' = Idle
    /\ outcome' = [outcome EXCEPT ![h.id] = "ok"]
    /\ UNCHANGED <<now, received, calls, malformed, jobs, armed, missed,
                   sent>>

\* await update.message.reply_text(...) completes.
ReplyDone ==
    /\ h.pc = "reply"
    /\ replies' = replies \cup {[id |-> h.id, chat_id |-> h.chat_id,
                                  text |-> AckText(h.task, h.remind_time)]}
    /\ h' = Idle
    /\ outcome' = [outcome EXCEPT ![h.id] = "ok"]
    /\ UNCHANGED <<now, received, calls, malformed, jobs, armed, missed,
                   sent>>

\* f"Reminder: {job.data}"
ReminderText(data) == <<"Reminder: ">> \o data

\* Mutant: a job whose callback raised stays in the queue and runs again.
JobsAfterRun_Retry(j, ok) == IF ok THEN jobs \ {j} ELSE jobs

\* The job queue after it ran job j (a run_once job runs one time, whether
\* or not its callback raised).
JobsAfterRun(j, ok) == jobs \ {j}

\* Mutant: the job queue runs a job one tick before its run time.
CanRun_OffByOne(j) == LoopFree /\ j.due <= now + 1

\* Mutant: the job queue runs a job without waiting for its run time.
CanRun_Early(j) == LoopFree

\* The job queue may run j: it is due and the event loop is free.
CanRun(j) == LoopFree /\ j.due <= now

\* The job queue runs send_reminder for job j; send_message succeeds or
\* raises.
send_reminder(j, ok) ==
    /\ j \in jobs
    /\ CanRun(j)
    /\ sent' = [sent EXCEPT ![j.id] =
                   Append(@, [chat_id |-> j.chat_id,
                              text |-> ReminderText(j.data), ok |-> ok])]
    /\ jobs' = JobsAfterRun(j, ok)
    /\ UNCHANGED <<now, received, h, calls, outcome, malformed, armed,
                   missed, replies>>

\* A job whose run time has already passed when the job queue gets to it
\* (a negative `when`, or an event loop that was busy) is run late by
\* send_reminder above or dropped as a missed run: the code sets no policy.
MissJob(j) ==
    /\ j \in jobs
    /\ LoopFree
    /\ j.due < now
    /\ jobs' = jobs \ {j}
    /\ missed' = missed \cup {j.id}
    /\ UNCHANGED <<now, received, h, calls, outcome, malformed, armed, sent,
                   replies>>

\* The clock advances; a free event loop serves the jobs that are due first.
Tick ==
    /\ now < MaxTime
    /\ ~\E j \in jobs : CanRun(j)
    /\ now' = now + 1
    /\ UNCHANGED <<received, h, calls, outcome, malformed, jobs, armed,
                   missed, sent, replies>>

Next ==
    \/ \E c \in Chats : StartHandler(c)
    \/ \E e \in UpstreamErrors : InvokeRaises(e)
    \/ InvokeHangs
    \/ \E task \in Tasks, ts \in TimeStrs : InvokeReturns(task, ts)
    \/ ReplyDone
    \/ \E j \in jobs, ok \in BOOLEAN : send_reminder(j, ok)
    \/ \E j \in jobs : MissJob(j)
    \/ Tick

Spec == Init /\ [][Next]_vars

\* The external call returns, raises or hangs; a reply that went out
\* completes; a free event loop serves due jobs; the clock advances.
Fairness ==
    /\ WF_vars(\/ \E task \in Tasks, ts \in TimeStrs : InvokeReturns(task, ts)
               \/ \E e \in UpstreamErrors : InvokeRaises(e)
               \/ InvokeHangs)
    /\ WF_vars(ReplyDone)
    /\ WF_vars(\E j \in jobs : (\E ok \in BOOLEAN : send_reminder(j, ok))
                                 \/ MissJob(j))
    /\ WF_vars(Tick)

FairSpec == Spec /\ Fairness

\* ---------------------------------------------------------------- claims

ArmedIds == {j.id : j \in armed}
JobIds == {j.id : j \in jobs}
RepliedIds == {r.id : r \in replies}
IsBlank(task) == \A i \in 1..Len(task) : task[i] = " "
Failed(id) == outcome[id] \notin {"none", "ok"}

\* C1: every reminder scheduled for a non-blank task with a fire time not
\* before the scheduling instant has, once the clock is past its fire time,
\* been delivered by send_reminder exactly once and with its own task text.
C1_DeliveredExactlyOnceAtFireTime ==
    \A j \in armed :
        (j.when >= 0 /\ ~IsBlank(j.data) /\ now > j.due)
            => /\ Len(sent[j.id]) = 1
               /\ sent[j.id][1].text = ReminderText(j.data)

\* C2: a request whose delay is zero or negative is armed with the delay
\* clamped to zero, and its reminder is never dropped.
C2_NonPositiveDelayClampedNeverDropped ==
    \A j \in armed : j.when >= 0 /\ j.id \notin missed

\* C3: send_reminder runs at most once per scheduled reminder, and a
\* reminder whose delivery was attempted (failed or not) is not pending
\* again.
C3_AtMostOneAttempt ==
    \A id \in UpdateIds :
        /\ Len(sent[id]) <= 1
        /\ Len(sent[id]) = 1 => id \notin JobIds

C3_Witness ==
    \E id \in UpdateIds :
        /\ Len(sent[id]) = 1
        /\ ~sent[id][1].ok
        /\ id \notin JobIds
        /\ now = MaxTime

\* C4 (as claimed): a pending reminder can be cancelled strictly before its
\* fire time: some step of the program takes it out of the pending set
\* without delivering it.
CancelledBy(j) == j \notin jobs' /\ sent'[j.id] = sent[j.id]
C5_ExtractionBlocksNothing ==
    h.pc = "invoke" =>
        /\ received < MaxMsgs => ENABLED (\E c \in Chats : StartHandler(c))
        /\ \A j \in jobs :
              j.due <= now => ENABLED (\E ok \in BOOLEAN : send_reminder(j, ok))

\* C6: an update whose extracted time is no valid timestamp ends with the
\* error (ValueError, the code's MalformedTimestamp); no reminder is armed
\* for it with any instant and no acknowledgment is sent for it.
C6_MalformedTimestampRejected ==
    \A id \in malformed :
        /\ outcome[id] = "ValueError"
        /\ id \notin ArmedIds
        /\ id \notin RepliedIds
        /\ h.id # id

C6_Witness ==
    \E id \in malformed :
        /\ outcome[id] = "ValueError"
        /\ \E j \in jobs : j.id # id

\* C7: no reminder is ever scheduled with an empty or whitespace-only task.
C7_NoBlankTaskScheduled ==
    \A j \in armed : ~IsBlank(j.data)

\* C8: a handler that ended with an upstream failure made exactly one
\* chain.invoke call, armed no reminder and sent no acknowledgment.
C8_UpstreamFailureOneCall ==
    \A id \in UpdateIds :
        outcome[id] \in UpstreamErrors =>
            /\ calls[id] = 1
            /\ id \notin ArmedIds
            /\ id \notin RepliedIds

C8_Witness ==
    /\ \E id \in UpdateIds : outcome[id] = "APIError"
    /\ \E id \in UpdateIds : outcome[id] = "OutputParserException"

\* C9: a step in which a handler fails (malformed timestamp, upstream
\* failure) or a delivery fails leaves the process running: the handler slot
\* is free for later messages or untouched, the event loop is free, and
\* every reminder pending before the step, other than the one whose
\* delivery just failed, is still pending, unchanged, and can run once due.
HandlerFails == \E id \in UpdateIds : ~Failed(id) /\ Failed(id)'
DeliveryFails ==
    \E id \in UpdateIds :
        /\ Len(sent'[id]) > Len(sent[id])
        /\ ~sent'[id][Len(sent'[id])].ok
C10_HandlerEventuallyResolves ==
    \A id \in UpdateIds : (calls[id] > 0) ~> (outcome[id] # "none")

\* C11: run_once does not block.  In the step in which the handler arms the
\* job it goes on to the reply_text call, and for a fire time in the future
\* that call is issued while the reminder is pending and undelivered; from
\* then on the handler can finish at any moment, whether or not the timer
\* has fired.
C11_AckIssuedWhilePending ==
    /\ [][(h.pc = "invoke" /\ h'.pc = "reply") =>
             \A j \in armed' \ armed :
                 j.when > 0 => /\ j \in jobs'
                               /\ j.id = h'.id
                               /\ Len(sent'[j.id]) = 0
                               /\ j.id \notin missed']_vars
    /\ [](h.pc = "reply" => ENABLED ReplyDone)

C11_Witness ==
    \E j \in jobs :
        /\ j.when > 0
        /\ now < j.due
        /\ outcome[j.id] = "ok"
        /\ j.id \in RepliedIds

\* C12: a timestamp without UTC offset is read as UTC, and normalization is
\* consistent: a timestamp written with an offset and the naive timestamp
\* of the same instant on the UTC clock parse to the same fire_at and give
\* the same delay; the job the handler armed is due at the UTC instant its
\* time string names.
OffsetStrs ==
    {[form |-> "offset", t |-> x, off |-> o] :
        x \in 0..(MaxTime + 1), o \in -1..1}
UtcNaive(o) == [form |-> "naive", t |-> o.t - o.off, off |-> 0]
C12_NaiveIsUtcAndOffsetEquivalent ==
    /\ \A o \in OffsetStrs \cup TimeStrs :
          o.form = "offset" =>
              LET a == AssumeUtc(fromisoformat(UtcNaive(o)))
                  b == AssumeUtc(fromisoformat(o))
              IN  /\ a.tzinfo = "utc"
                  /\ Instant(a) = Instant(b)
                  /\ Delay(a) = Delay(b)
    /\ h.pc = "reply" =>
          \E j \in armed :
              /\ j.id = h.id
              /\ j.due = h.time_str.t - h.time_str.off
              /\ h.remind_time = j.due

C12_Witness ==
    /\ h.pc = "reply"
    /\ h.time_str.form = "naive"
    /\ now > 0
    /\ \E j \in jobs : j.id = h.id /\ j.due = h.time_str.t
    /\ \E k \in armed : k.id # h.id /\ k.due = h.time_str.t

\* C13 (as claimed): the delay that is armed is fire_at minus the instant of
\* the request, whatever the extraction call takes: while chain.invoke is
\* outstanding, the delay the handler is going to arm does not change.
C13_DelayIndependentOfExtraction ==
    [][(h.pc = "invoke" /\ h'.pc = "invoke") =>
          \A ts \in TimeStrs :
              ts.form # "bad" =>
                  Delay(AssumeUtc(fromisoformat(ts)))'
                      = Delay(AssumeUtc(fromisoformat(ts)))]_vars

\* C13 (amended): the delay that is armed is fire_at minus the clock at the
\* run_once call, made after chain.invoke returned, so that the job is due
\* exactly at fire_at; read at instant 0 (2024-01-01T00:00:00+00:00), the
\* time 38 hours later (2024-01-02T14:00:00+00:00) gives a delay of 38.
C13_DelayIsFireAtMinusNowAtArming ==
    /\ [][\A j \in armed' \ armed :
             /\ now' = now
             /\ j.when = h'.remind_time - now
             /\ j.due = h'.remind_time
             /\ h'.remind_time = h'.time_str.t - h'.time_str.off]_vars
    /\ [](now = 0 =>
            Delay(AssumeUtc(fromisoformat(
                [form |-> "offset", t |-> 38, off |-> 0]))) = 38)

C13_Witness ==
    \E j \in armed, k \in armed :
        /\ j.when = 0 /\ j.due = 1
        /\ k.when = 1 /\ k.due = 1

\* C14: every send_message call of send_reminder belongs to a reminder that
\* was scheduled before, goes to the chat of the message that scheduled it
\* and carries the task of that message.
C14_DeliveryToOriginatingChat ==
    /\ [][(h.pc = "invoke" /\ h'.pc = "reply") =>
             \A j \in armed' \ armed :
                 /\ j.id = h.id
                 /\ j.chat_id = h.chat_id
                 /\ j.data = h'.task]_vars
    /\ [](\A id \in UpdateIds :
            \A i \in 1..Len(sent[id]) :
                \E j \in armed :
                    /\ j.id = id
                    /\ sent[id][i].chat_id = j.chat_id
                    /\ sent[id][i].text = ReminderText(j.data))
    /\ [](\A j \in armed, k \in armed : j.id = k.id => j = k)

C14_Witness ==
    \E j \in armed, k \in armed :
        /\ j.chat_id # k.chat_id
        /\ j.data # k.data
        /\ Len(sent[j.id]) = 1 /\ sent[j.id][1].chat_id = j.chat_id
        /\ Len(sent[k.id]) = 1 /\ sent[k.id][1].chat_id = k.chat_id

\* C15: an acknowledgment, issued or gone out, is for an update whose
\* extraction returned, whose time parsed and whose reminder was armed
\* before, with the task and time the acknowledgment names; no update
\* without an armed reminder is acknowledged.
C15_AckOnlyAfterArmed ==
    /\ \A r \in replies :
          /\ calls[r.id] = 1
          /\ r.id \notin malformed
          /\ outcome[r.id] = "ok"
          /\ \E j \in armed :
                /\ j.id = r.id
                /\ j.chat_id = r.chat_id
                /\ r.text = AckText(j.data, j.due)
    /\ h.pc = "reply" =>
          /\ calls[h.id] = 1
          /\ h.id \notin malformed
          /\ \E j \in armed : j.id = h.id /\ j.data = h.task
    /\ \A id \in UpdateIds :
          id \notin ArmedIds => id \notin RepliedIds /\ outcome[id] # "ok"

C15_Witness ==
    /\ \E r \in replies : r.id \in ArmedIds
    /\ \E id \in UpdateIds : Failed(id) /\ id \notin RepliedIds

\* C16: the pending set holds exactly the reminders that were scheduled and
\* have not fired yet.
C16_PendingIsScheduledNotFired ==
    jobs = {j \in armed : Len(sent[j.id]) = 0}

\* C17: every run_once call adds a pending reminder of its own, also when
\* chat, task and fire time equal those of an earlier one: identities are
\* unique, the earlier pending reminders stay as they are, and a run or a
\* drop takes exactly one reminder out of the pending set.
C17_EachScheduleItsOwnReminder ==
    /\ [][(h.pc = "invoke" /\ h'.pc = "reply") =>
             /\ jobs \subseteq jobs'
             /\ Cardinality(jobs') = Cardinality(jobs) + 1
             /\ armed \subseteq armed'
             /\ Cardinality(armed') = Cardinality(armed) + 1]_vars
    /\ [][\A j \in jobs : j \notin jobs' => jobs' = jobs \ {j}]_vars
    /\ [](\A j \in armed, k \in armed : j.id = k.id => j = k)
    /\ [](Cardinality(ArmedIds) = Cardinality(armed))

C17_Witness ==
    \E j \in armed, k \in armed :
        /\ j.id # k.id
        /\ j.chat_id = k.chat_id /\ j.data = k.data /\ j.due = k.due
        /\ Len(sent[j.id]) = 1 /\ sent[j.id][1].ok
        /\ Len(sent[k.id]) = 1 /\ sent[k.id][1].ok

C17_TwoPendingWitness ==
    \E j \in jobs, k \in jobs :
        /\ j.id # k.id
        /\ j.chat_id = k.chat_id /\ j.data = k.data /\ j.due = k.due

\* C18: send_reminder is never invoked for a reminder while the clock is
\* before its fire time.
C18_NoEarlyDelivery ==
    [][\A j \in armed :
          Len(sent'[j.id]) > Len(sent[j.id]) =>
              /\ j.due <= now
              /\ j.due \in FireTimes]_vars

C18_Witness ==
    \E j \in armed :
        /\ j.when > 0
        /\ Len(sent[j.id]) = 1
        /\ now = j.due
====
